---- MODULE Spec2Model ----
(***************************************************************************)
(* The web crawl of corpus-api: WebCollector.collect                       *)
(* (src/src/services/web_collector.py) driven by the POST /collect/web     *)
(* handler DataCollectorService.collect_web                                *)
(* (src/src/services/data_collector.py).                                   *)
(*                                                                         *)
(* Strings (URLs, hrefs, page text) are sequences of one-character         *)
(* strings, so that startswith / rstrip / lstrip / split / join are        *)
(* computed character by character as Python computes them.                *)
(***************************************************************************)
EXTENDS Integers, Sequences, FiniteSets, TLC

VARIABLES
    web,              \* the responses the remote site may give (environment)
    site,             \* URL -> response already given by the remote site
    url,              \* kwargs['url'], the seed
    max_pages,        \* kwargs['max_pages']
    documents,        \* list of emitted documents
    urls_to_process,  \* the frontier (FIFO list)
    processed_urls,   \* the visited set
    processed_count,  \* pages counted toward the budget
    pc,               \* "loop" | "exit" | "responded"
    outcome,          \* what collect() did: "pending" | "documents" | "HTTPException400"
    response,         \* what the HTTP handler answered
    dequeued,         \* history: every URL popped from the frontier, in order
    fetched,          \* history: every URL handed to requests.get, in order
    enqueued,         \* history: every URL appended to the frontier, in order
    skipped,          \* history: number of iterations that took the 'continue' of line 27
    faulted,          \* history: whether writing the response file failed
    mono              \* the state of the monolithic collect_web of app.py

vars == <<web, site, url, max_pages, documents, urls_to_process, processed_urls,
          processed_count, pc, outcome, response, dequeued, fetched, enqueued, skipped,
          faulted, mono>>

----------------------------------------------------------------------------
(* Bounds of the model *)

MaxPagesBound == 4

EquivMaxPages == 3

BFSMaxPages == 6

----------------------------------------------------------------------------
(* Python string operations on character sequences *)

StartsWith(s, p) == Len(p) <= Len(s) /\ SubSeq(s, 1, Len(p)) = p

RECURSIVE RStrip(_, _)
RStrip(s, c) ==
    IF s # <<>> /\ s[Len(s)] = c THEN RStrip(SubSeq(s, 1, Len(s) - 1), c) ELSE s

RECURSIVE LStrip(_, _)
LStrip(s, c) ==
    IF s # <<>> /\ s[1] = c THEN LStrip(Tail(s), c) ELSE s

IsSpace(c) == c \in {" ", "\n", "\t"}

RECURSIVE StripLeft(_)
StripLeft(s) == IF s # <<>> /\ IsSpace(s[1]) THEN StripLeft(Tail(s)) ELSE s

RECURSIVE StripRight(_)
StripRight(s) ==
    IF s # <<>> /\ IsSpace(s[Len(s)]) THEN StripRight(SubSeq(s, 1, Len(s) - 1)) ELSE s

Strip(s) == StripRight(StripLeft(s))

\* str.split(): the maximal runs of non-whitespace characters, in order
RECURSIVE SplitFrom(_, _, _)
SplitFrom(s, word, acc) ==
    IF s = <<>>
    THEN IF word = <<>> THEN acc ELSE Append(acc, word)
    ELSE IF IsSpace(Head(s))
         THEN SplitFrom(Tail(s), <<>>, IF word = <<>> THEN acc ELSE Append(acc, word))
         ELSE SplitFrom(Tail(s), Append(word, Head(s)), acc)

Split(s) == SplitFrom(s, <<>>, <<>>)

\* sep.join(parts)
RECURSIVE Join(_, _)
Join(parts, sep) ==
    IF parts = <<>> THEN <<>>
    ELSE IF Len(parts) = 1 THEN parts[1]
    ELSE parts[1] \o sep \o Join(Tail(parts), sep)

\* ' '.join(text.split())
NormalizeWhitespace(s) == Join(Split(s), <<" ">>)

----------------------------------------------------------------------------
(* Pages: what BeautifulSoup sees in a response *)

NoElem == [present |-> FALSE, nodes |-> <<>>]

Elem(nodes) == [present |-> TRUE, nodes |-> nodes]

\* soup.title: absent, present with no string (.string is None), or with text
\* Python's None, a value that is no character sequence
PyNone == <<"None">>

NoTitle == [present |-> FALSE, string |-> PyNone]

EmptyTitle == [present |-> TRUE, string |-> PyNone]

Title(s) == [present |-> TRUE, string |-> s]

\* content is the first div that find('div', class_='content') matches (a div
\* whose class list holds "content"); other_content is the first element of
\* class "content" that is no div
FailPage ==
    [ok |-> FALSE, title |-> NoTitle, article |-> NoElem, main |-> NoElem,
     content |-> NoElem, other_content |-> NoElem, body |-> NoElem, hrefs |-> <<>>]

OkPage(title, article, main, content, body, hrefs) ==
    [ok |-> TRUE, title |-> title, article |-> article, main |-> main,
     content |-> content, other_content |-> NoElem, body |-> body, hrefs |-> hrefs]

\* a page with a section of class "content" inside its body
OkPageWithSection(title, section, body, hrefs) ==
    [OkPage(title, NoElem, NoElem, NoElem, body, hrefs) EXCEPT !.other_content = section]

\* Tag.get_text(separator=' ', strip=True): each text node stripped, the empty
\* ones dropped, the rest joined by the separator
RECURSIVE StrippedNodes(_)
StrippedNodes(nodes) ==
    IF nodes = <<>> THEN <<>>
    ELSE IF Strip(Head(nodes)) = <<>> THEN StrippedNodes(Tail(nodes))
    ELSE <<Strip(Head(nodes))>> \o StrippedNodes(Tail(nodes))

GetText(elem) == Join(StrippedNodes(elem.nodes), <<" ">>)

\* mutant of MainContent: a region without text is passed over
MainContentSkipsEmpty(page) ==
    IF page.article.present /\ page.article.nodes # <<>> THEN page.article
    ELSE IF page.main.present /\ page.main.nodes # <<>> THEN page.main
    ELSE IF page.content.present /\ page.content.nodes # <<>> THEN page.content
    ELSE NoElem

\* lines 44-53: article, else main, else div.content, else body, else ""
MainContent(page) ==
    IF page.article.present THEN page.article
    ELSE IF page.main.present THEN page.main
    ELSE IF page.content.present THEN page.content
    ELSE NoElem

ExtractText(page) ==
    LET main_content == MainContent(page)
        raw == IF main_content.present THEN GetText(main_content)
               ELSE IF page.body.present THEN GetText(page.body)
               ELSE <<>>
    IN  NormalizeWhitespace(raw)

\* line 41
ExtractTitle(page, current_url) ==
    IF page.title.present THEN page.title.string ELSE current_url

----------------------------------------------------------------------------
(* The crawl: WebCollector.collect *)

HTTP == <<"h", "t", "t", "p", ":", "/", "/">>

HTTPS == <<"h", "t", "t", "p", "s", ":", "/", "/">>

\* line 16
BaseUrl(seed) == RStrip(seed, "/")

\* mutant of ResolveHref: the leading "." of "./x" is kept
ResolveHrefDotKept(base_url, href) ==
    IF StartsWith(href, <<"/">>) THEN base_url \o href
    ELSE IF StartsWith(href, <<".", "/">>) THEN base_url \o href
    ELSE IF ~(StartsWith(href, HTTP) \/ StartsWith(href, HTTPS))
         THEN base_url \o <<"/">> \o LStrip(href, "/")
    ELSE href

\* lines 70-77
ResolveHref(base_url, href) ==
    IF StartsWith(href, <<"/">>) THEN base_url \o href
    ELSE IF StartsWith(href, <<".", "/">>) THEN base_url \o Tail(href)
    ELSE IF ~(StartsWith(href, HTTP) \/ StartsWith(href, HTTPS))
         THEN base_url \o <<"/">> \o LStrip(href, "/")
    ELSE href

\* mutant of InScope: the scope test is left out
InScopeAnyUrl(full_url, base_url) == TRUE

\* line 79, first conjunct
InScope(full_url, base_url) == StartsWith(full_url, base_url)

InSeq(x, seq) == \E i \in 1..Len(seq) : seq[i] = x

\* mutant of ShouldEnqueue: no check against the visited set and the frontier
ShouldEnqueueNoDedup(full_url, base_url, processed, queue) ==
    InScope(full_url, base_url)

\* mutant of ShouldEnqueue: no check against the visited set (line 79)
ShouldEnqueueNoVisitedCheck(full_url, base_url, processed, queue) ==
    InScope(full_url, base_url) /\ ~InSeq(full_url, queue)

\* mutant of ShouldEnqueue: no check against the frontier (line 80)
ShouldEnqueueNoQueueCheck(full_url, base_url, processed, queue) ==
    InScope(full_url, base_url) /\ full_url \notin processed

\* lines 79-80
ShouldEnqueue(full_url, base_url, processed, queue) ==
    /\ InScope(full_url, base_url)
    /\ full_url \notin processed
    /\ ~InSeq(full_url, queue)

\* lines 67-81: the frontier after the links of one page have been handled
RECURSIVE EnqueueLinks(_, _, _, _)
EnqueueLinks(hrefs, base_url, processed, queue) ==
    IF hrefs = <<>> THEN queue
    ELSE LET full_url == ResolveHref(base_url, Head(hrefs))
         IN  EnqueueLinks(Tail(hrefs), base_url, processed,
                          IF ShouldEnqueue(full_url, base_url, processed, queue)
                          THEN Append(queue, full_url) ELSE queue)

\* mutant of BudgetLeft: the comparison off by one
BudgetLeftInclusive(count, max) == count <= max

\* lines 23 and 66
BudgetLeft(count, max) == count < max

\* lines 56-63 (id and date are fresh values and are left out)
MakeDocument(current_url, title, text_content) ==
    [source |-> "web", url |-> current_url, title |-> title, text |-> text_content]

\* mutant of HasText: every fetched page gives a document
HasTextAlways(text_content) == TRUE

\* line 55
HasText(text_content) == text_content # <<>>

\* mutant of PopFront: pop() takes the newest URL instead of the oldest
PopBack(queue) ==
    [current |-> queue[Len(queue)], rest |-> SubSeq(queue, 1, Len(queue) - 1)]

\* line 24: urls_to_process.pop(0)
PopFront(queue) == [current |-> Head(queue), rest |-> Tail(queue)]

\* line 26
AlreadyProcessed(current_url, processed) == current_url \in processed

\* mutant of MarkProcessed: the URL is not recorded as visited
MarkProcessedForgotten(processed, current_url) == processed

\* line 29
MarkProcessed(processed, current_url) == processed \cup {current_url}

\* mutant of AfterFailure: the failure ends the crawl, the frontier is dropped
AfterFailureAbort(rest) == <<>>

\* lines 83-84: the frontier the loop goes on with after a page has failed
AfterFailure(rest) == rest

\* mutant of FollowLinks: link following stops one page early
FollowLinksStopsEarly(text_content, count, max) ==
    HasText(text_content) /\ BudgetLeft(count + 1, max)

\* lines 55 and 66: links are followed only from a page that gave a document
FollowLinks(text_content, count, max) == HasText(text_content) /\ BudgetLeft(count, max)

\* line 23
LoopCondition == urls_to_process # <<>> /\ BudgetLeft(processed_count, max_pages)

\* lines 24-84: one iteration of the while loop; the remote site answers
\* the request with any of its responses (the same one if asked again)
LoopIteration ==
    /\ pc = "loop"
    /\ LoopCondition
    /\ LET current_url == PopFront(urls_to_process).current
           popped == PopFront(urls_to_process).rest
       IN  /\ dequeued' = Append(dequeued, current_url)
           /\ IF AlreadyProcessed(current_url, processed_urls)
              THEN /\ urls_to_process' = popped
                   /\ skipped' = skipped + 1
                   /\ UNCHANGED <<site, documents, processed_urls, processed_count,
                                  fetched, enqueued>>
              ELSE \E page \in web :
                   /\ current_url \in DOMAIN site => page = site[current_url]
                   /\ site' = (current_url :> page) @@ site
                   /\ processed_urls' = MarkProcessed(processed_urls, current_url)
                   /\ processed_count' = processed_count + 1
                   /\ fetched' = Append(fetched, current_url)
                   /\ UNCHANGED skipped
                   /\ IF ~page.ok
                      THEN /\ urls_to_process' = AfterFailure(popped)
                           /\ UNCHANGED <<documents, enqueued>>
                      ELSE LET title == ExtractTitle(page, current_url)
                               text_content == ExtractText(page)
                               follow == FollowLinks(text_content, processed_count',
                                                     max_pages)
                               queue == IF follow
                                        THEN EnqueueLinks(page.hrefs, BaseUrl(url),
                                                          processed_urls', popped)
                                        ELSE popped
                           IN  /\ documents' =
                                     IF HasText(text_content)
                                     THEN Append(documents,
                                                 MakeDocument(current_url, title, text_content))
                                     ELSE documents
                               /\ urls_to_process' = queue
                               /\ enqueued' = enqueued
                                     \o SubSeq(queue, Len(popped) + 1, Len(queue))
    /\ UNCHANGED <<web, url, max_pages, pc, outcome, response, faulted, mono>>

\* mutant of CollectOutcome: the empty list is returned instead of raising
CollectOutcomeNeverRaises(docs) == "documents"

\* lines 86-89
CollectOutcome(docs) == IF docs = <<>> THEN "HTTPException400" ELSE "documents"

LoopExit ==
    /\ pc = "loop"
    /\ ~LoopCondition
    /\ outcome' = CollectOutcome(documents)
    /\ pc' = "exit"
    /\ UNCHANGED <<web, site, url, max_pages, documents, urls_to_process, processed_urls,
                   processed_count, response, dequeued, fetched, enqueued, skipped,
                   faulted, mono>>

----------------------------------------------------------------------------
(* The entry point: DataCollectorService.collect_web *)

\* data_collector.py lines 67-71: `except Exception` also catches the
\* HTTPException raised by collect(); sinkFault is a failure inside
\* _create_jsonl_response (lines 91-112)
EntryResponse(collected, sinkFault) ==
    IF collected = "documents" /\ ~sinkFault THEN "file200" ELSE "http500"

Respond ==
    /\ pc = "exit"
    /\ \E sinkFault \in BOOLEAN :
          /\ response' = EntryResponse(outcome, sinkFault)
          /\ faulted' = (outcome = "documents" /\ sinkFault)
    /\ pc' = "responded"
    /\ UNCHANGED <<web, site, url, max_pages, documents, urls_to_process, processed_urls,
                   processed_count, outcome, dequeued, fetched, enqueued, skipped,
                   mono>>

----------------------------------------------------------------------------
(* The monolithic handler: collect_web of app.py, on the same site *)

\* app.py lines 165-171
MonoStart(seed) ==
    [documents |-> <<>>, urls_to_process |-> <<seed>>, processed_urls |-> {},
     processed_count |-> 0, pc |-> "loop", response |-> "none",
     dequeued |-> <<>>, fetched |-> <<>>, faulted |-> FALSE]

\* app.py lines 195-205
MonoExtractText(page) ==
    LET raw == IF page.article.present THEN GetText(page.article)
               ELSE IF page.main.present THEN GetText(page.main)
               ELSE IF page.content.present THEN GetText(page.content)
               ELSE IF page.body.present THEN GetText(page.body)
               ELSE <<>>
    IN  Join(Split(raw), <<" ">>)

\* app.py lines 219-233
RECURSIVE MonoEnqueueLinks(_, _, _, _)
MonoEnqueueLinks(hrefs, base_url, processed, queue) ==
    IF hrefs = <<>> THEN queue
    ELSE LET href == Head(hrefs)
             full_url ==
                 IF StartsWith(href, <<"/">>) THEN base_url \o href
                 ELSE IF StartsWith(href, <<".", "/">>) THEN base_url \o Tail(href)
                 ELSE IF ~(StartsWith(href, HTTP) \/ StartsWith(href, HTTPS))
                      THEN base_url \o <<"/">> \o LStrip(href, "/")
                 ELSE href
         IN  MonoEnqueueLinks(Tail(hrefs), base_url, processed,
                 IF /\ StartsWith(full_url, base_url)
                    /\ full_url \notin processed
                    /\ \A i \in 1..Len(queue) : queue[i] # full_url
                 THEN Append(queue, full_url) ELSE queue)

\* app.py lines 173-236: one iteration of the while loop
MonoIteration ==
    /\ mono.pc = "loop"
    /\ mono.urls_to_process # <<>>
    /\ mono.processed_count < max_pages
    /\ LET current_url == Head(mono.urls_to_process)
           rest == Tail(mono.urls_to_process)
           popped == [mono EXCEPT !.urls_to_process = rest,
                                  !.dequeued = Append(@, current_url)]
       IN  IF current_url \in mono.processed_urls
           THEN mono' = popped /\ UNCHANGED site
           ELSE \E page \in web :
                /\ current_url \in DOMAIN site => page = site[current_url]
                /\ site' = (current_url :> page) @@ site
                /\ LET counted == [popped EXCEPT
                                      !.processed_urls = @ \cup {current_url},
                                      !.processed_count = @ + 1,
                                      !.fetched = Append(@, current_url)]
                       title == IF page.title.present THEN page.title.string
                                ELSE current_url
                       text_content == MonoExtractText(page)
                   IN  mono' =
                         IF ~page.ok THEN counted
                         ELSE IF text_content = <<>> THEN counted
                         ELSE [counted EXCEPT
                                 !.documents = Append(@,
                                     [source |-> "web", url |-> current_url,
                                      title |-> title, text |-> text_content]),
                                 !.urls_to_process =
                                     IF counted.processed_count < max_pages
                                     THEN MonoEnqueueLinks(page.hrefs, RStrip(url, "/"),
                                                           counted.processed_urls, rest)
                                     ELSE rest]
    /\ UNCHANGED <<web, url, max_pages, documents, urls_to_process, processed_urls,
                   processed_count, pc, outcome, response, dequeued, fetched, enqueued,
                   skipped, faulted>>

\* mutant of MonoEntryResponse: the HTTPException(400) passes the catch-all
MonoEntryResponseKeepsClientError(docs, sinkFault) ==
    IF docs = <<>> THEN "http400"
    ELSE IF sinkFault THEN "http500" ELSE "file200"

\* app.py lines 238-264: the 400 is raised inside the try and caught by
\* `except Exception`; sinkFault is a failure while the file is written
MonoEntryResponse(docs, sinkFault) ==
    IF docs # <<>> /\ ~sinkFault THEN "file200" ELSE "http500"

\* app.py lines 173 and 238-264: the loop is left and the request answered
MonoFinish ==
    /\ mono.pc = "loop"
    /\ ~(mono.urls_to_process # <<>> /\ mono.processed_count < max_pages)
    /\ \E sinkFault \in BOOLEAN :
          mono' = [mono EXCEPT !.pc = "responded",
                               !.response = MonoEntryResponse(mono.documents, sinkFault),
                               !.faulted = (mono.documents # <<>> /\ sinkFault)]
    /\ UNCHANGED <<web, site, url, max_pages, documents, urls_to_process, processed_urls,
                   processed_count, pc, outcome, response, dequeued, fetched, enqueued,
                   skipped, faulted>>

----------------------------------------------------------------------------
(* The inputs: seeds, hrefs and the responses of the remote site *)

SeedPlain == HTTP \o <<"a">>

SeedSlash == HTTP \o <<"a", "/">>

SeedDeep == HTTP \o <<"a", "/", "d">>

Seeds == {SeedPlain, SeedSlash, SeedDeep}

hRootP == <<"/", "p">>

hDotQ == <<".", "/", "q">>

hRelR == <<"r">>

hAbsP == HTTP \o <<"a", "/", "p">>

hRoot == <<"/">>

hExternal == HTTP \o <<"b", "/", "p">>

hSecure == HTTPS \o <<"a", "/", "p">>

hHostPrefix == HTTP \o <<"a", ".", "b", "/">>

hDeepAbs == HTTP \o <<"a", "/", "d", "/", "p">>

tX == <<"x">>

tXY == <<" ", "x", "\n", "\t", "y", " ">>

tBlank == <<" ", "\n">>

tY == <<"y">>

PageSet ==
    { FailPage,
      \* text in the body, three distinct in-scope links
      OkPage(Title(<<"T">>), NoElem, NoElem, NoElem, Elem(<<tX>>), <<hRootP, hDotQ, hRelR>>),
      \* a link to the seed, to other hosts, and the same page linked twice
      OkPage(NoTitle, NoElem, NoElem, NoElem, Elem(<<tXY, tX>>),
             <<hRoot, hExternal, hSecure, hRootP, hAbsP>>),
      \* no body at all, one link
      OkPage(Title(<<"T">>), NoElem, NoElem, NoElem, NoElem, <<hRelR>>),
      \* a body of whitespace only
      OkPage(NoTitle, NoElem, NoElem, NoElem, Elem(<<tBlank>>), <<hDotQ>>),
      \* an article, and a link whose host merely begins like the seed's
      OkPage(EmptyTitle, Elem(<<tX>>), NoElem, NoElem, Elem(<<tXY>>), <<hHostPrefix, hDotQ>>),
      \* an empty article in front of a body with text
      OkPage(NoTitle, Elem(<<>>), NoElem, NoElem, Elem(<<tX>>), <<hRootP>>),
      \* a main region
      OkPage(Title(<<"T">>), NoElem, Elem(<<tXY>>), Elem(<<tX>>), Elem(<<tX>>), <<hRelR, hRelR>>),
      \* a section of class content inside a body with more text
      OkPageWithSection(Title(<<"T">>), Elem(<<tY>>), Elem(<<tX, tY>>), <<hDotQ, hDeepAbs>>),
      \* a div of class content, no links
      OkPage(NoTitle, NoElem, NoElem, Elem(<<tX, tBlank, tX>>), Elem(<<tX>>), <<>>) }

\* a site of plain text pages for the traversal-order runs
BFSPageSet ==
    { OkPage(NoTitle, NoElem, NoElem, NoElem, Elem(<<tX>>), <<hRootP, hDotQ>>),
      OkPage(NoTitle, NoElem, NoElem, NoElem, NoElem, <<<<"/", "d">>>>),
      OkPage(NoTitle, NoElem, NoElem, NoElem, Elem(<<tX>>), <<hRelR>>),
      OkPage(NoTitle, NoElem, NoElem, NoElem, Elem(<<tX>>), <<<<"/", "e">>, <<"/", "d">>>>),
      OkPage(NoTitle, NoElem, NoElem, NoElem, Elem(<<tX>>), <<>>) }

----------------------------------------------------------------------------
(* Specifications *)

\* lines 12-21
Start(responses, seed, max) ==
    /\ web = responses
    /\ site = <<>>
    /\ url = seed
    /\ max_pages = max
    /\ documents = <<>>
    /\ urls_to_process = <<seed>>
    /\ processed_urls = {}
    /\ processed_count = 0
    /\ pc = "loop"
    /\ outcome = "pending"
    /\ response = "none"
    /\ dequeued = <<>>
    /\ fetched = <<>>
    /\ enqueued = <<>>
    /\ skipped = 0
    /\ faulted = FALSE
    /\ mono = MonoStart(seed)

Init == \E seed \in Seeds : \E max \in 1..MaxPagesBound : Start(PageSet, seed, max)

InitBFS == \E max \in 1..BFSMaxPages : Start(BFSPageSet, SeedPlain, max)

Next == LoopIteration \/ LoopExit \/ Respond

Spec == Init /\ [][Next]_vars

\* the loop and the handler run to completion: nothing suspends them for ever
FairSpec == Init /\ [][Next]_vars /\ WF_vars(Next)

SpecBFS == InitBFS /\ [][Next]_vars

\* both handlers answer the same request against the same site
InitEquiv == \E seed \in Seeds : \E max \in 1..EquivMaxPages : Start(PageSet, seed, max)

NextEquiv == LoopIteration \/ LoopExit \/ Respond \/ MonoIteration \/ MonoFinish

SpecEquiv == InitEquiv /\ [][NextEquiv]_vars

----------------------------------------------------------------------------
(* Properties *)

Range(seq) == {seq[i] : i \in 1..Len(seq)}

DocUrls == [i \in 1..Len(documents) |-> documents[i].url]

\* the response the site gave for a fetched URL yields a document
GaveText(u) == site[u].ok /\ ExtractText(site[u]) # <<>>

\* the in-scope URLs a fetched page links to
LinksOf(u) ==
    IF site[u].ok
    THEN {full_url \in {ResolveHref(BaseUrl(url), site[u].hrefs[i]) :
                            i \in 1..Len(site[u].hrefs)} :
             InScope(full_url, BaseUrl(url))}
    ELSE {}

\* C1: the page budget is never exceeded: in every state of the crawl
\* pages_processed <= max_pages and at most max_pages fetches were issued.
BudgetNeverExceeded ==
    /\ processed_count <= max_pages
    /\ Len(fetched) <= max_pages

\* the budget stops a crawl that still has URLs to visit, one of them failed
BudgetWitness ==
    /\ pc = "exit"
    /\ processed_count = max_pages
    /\ max_pages >= 2
    /\ urls_to_process # <<>>
    /\ \E u \in Range(fetched) : ~site[u].ok

\* C3: no two emitted documents have the same url.
NoDuplicateDocumentUrls ==
    \A i, j \in 1..Len(documents) :
        i # j => documents[i].url # documents[j].url

\* a crawl of several documents over a page that links back to a visited URL
CyclicWitness ==
    /\ pc = "exit"
    /\ Len(documents) >= 3
    /\ \E u \in Range(DocUrls) : u \in LinksOf(u)

\* C4: collect() raises the 400 no-content error exactly when no attempted
\* page gave non-empty text; otherwise it returns a non-empty list.
NoContentExactlyWhenNoText ==
    pc # "loop" =>
        IF \A u \in Range(fetched) : ~GaveText(u)
        THEN outcome = "HTTPException400"
        ELSE outcome = "documents" /\ documents # <<>>

\* the seed fetch fails and the crawl ends with the no-content error
SeedUnreachableWitness ==
    /\ pc = "exit"
    /\ fetched = <<url>>
    /\ ~site[url].ok
    /\ outcome = "HTTPException400"

\* link distance from the seed in the graph of the site's in-scope links
\* (a URL the crawl never fetched contributes no links)
KnownLinks(u) == IF u \in DOMAIN site THEN LinksOf(u) ELSE {}

RECURSIVE DistanceFrom(_, _, _, _)
DistanceFrom(level, seen, target, k) ==
    IF target \in level THEN k
    ELSE IF level = {} THEN -1
    ELSE LET next == UNION {KnownLinks(u) : u \in level} \ seen
         IN  DistanceFrom(next, seen \cup next, target, k + 1)

LinkDistance(u) == DistanceFrom({url}, {url}, u, 0)

\* C2: breadth-first order: every visited page at link-distance k is
\* dequeued before any visited page at link-distance k+1 (or more).
BreadthFirstByLinkDistance ==
    pc = "exit" =>
        \A i, j \in 1..Len(dequeued) :
            LinkDistance(dequeued[i]) < LinkDistance(dequeued[j]) => i < j

\* C5: at POST /collect/web a crawl without text is answered 400, a
\* successful crawl with the file, and only an unexpected fault with 500.
EntryStatusMatchesOutcome ==
    pc = "responded" =>
        /\ outcome = "HTTPException400" => response = "http400"
        /\ (outcome = "documents" /\ ~faulted) => response = "file200"
        /\ response = "http500" => faulted

\* a step of the loop whose fetch fails
PageFails ==
    /\ pc = "loop"
    /\ Len(fetched') = Len(fetched) + 1
    /\ ~site'[fetched'[Len(fetched')]].ok

LastFetchFailed == fetched # <<>> /\ ~site[fetched[Len(fetched)]].ok

\* C6: a page failure never aborts the crawl: the page is skipped with the
\* documents kept, the loop dequeues the next frontier URL while budget
\* remains, and every page that gave text is returned with no error.
PageFailureAbsorbed ==
    /\ [][PageFails =>
            /\ pc' = "loop" /\ outcome' = "pending"
            /\ documents' = documents
            /\ urls_to_process' = Tail(urls_to_process)]_vars
    /\ [][(pc = "loop" /\ LastFetchFailed /\ urls_to_process # <<>>
            /\ processed_count < max_pages) =>
            dequeued' = Append(dequeued, Head(urls_to_process))]_vars
    /\ [](pc # "loop" =>
            /\ DocUrls = SelectSeq(fetched, GaveText)
            /\ documents # <<>> => outcome = "documents")

\* a failed page between two pages that gave documents
FailureBetweenDocumentsWitness ==
    /\ pc = "exit"
    /\ outcome = "documents"
    /\ \E i, j, k \in 1..Len(fetched) :
          /\ i < j /\ j < k
          /\ GaveText(fetched[i]) /\ ~site[fetched[j]].ok /\ GaveText(fetched[k])
          /\ fetched[i] \in Range(DocUrls) /\ fetched[k] \in Range(DocUrls)

\* C7: every crawl terminates: the loop reaches its exit, after at most
\* max_pages dequeues in all (none of them outside the budget).
CrawlTerminates ==
    /\ <>(pc # "loop")
    /\ [](Len(dequeued) <= max_pages)

\* a crawl over a cycle of links that uses the whole budget
CycleTerminatedWitness ==
    /\ pc = "exit"
    /\ max_pages >= 3
    /\ Len(dequeued) = max_pages
    /\ \E i, j \in 1..Len(fetched) :
          /\ i < j /\ j < Len(fetched)
          /\ GaveText(fetched[j])
          /\ fetched[i] \in LinksOf(fetched[j])
          /\ fetched[j] \in LinksOf(fetched[i])

\* the distinct in-scope URLs, other than the seed, that a list of hrefs
\* resolves to, in the order of their first occurrence
RECURSIVE DiscoveryOrder(_, _)
DiscoveryOrder(hrefs, acc) ==
    IF hrefs = <<>> THEN acc
    ELSE LET full_url == ResolveHref(BaseUrl(url), Head(hrefs))
         IN  DiscoveryOrder(Tail(hrefs),
                 IF StartsWith(full_url, BaseUrl(url)) /\ full_url # url
                    /\ ~InSeq(full_url, acc)
                 THEN Append(acc, full_url) ELSE acc)

SeedSuccessors == DiscoveryOrder(site[url].hrefs, <<>>)

AllFetchedGaveText == \A u \in Range(fetched) : GaveText(u)

\* C8: when every fetched page gives text and the seed links to at least
\* max_pages-1 distinct in-scope pages (other than itself), the crawl emits
\* exactly max_pages documents, the seed and then its first max_pages-1
\* successors in discovery order, and fetches nothing else.
SeedThenFirstSuccessors ==
    (pc # "loop" /\ AllFetchedGaveText /\ Len(SeedSuccessors) >= max_pages - 1) =>
        /\ fetched = <<url>> \o SubSeq(SeedSuccessors, 1, max_pages - 1)
        /\ DocUrls = fetched
        /\ Len(documents) = max_pages

\* the seed has more successors than the budget admits
MoreLinksThanBudgetWitness ==
    /\ pc = "exit"
    /\ AllFetchedGaveText
    /\ max_pages >= 3
    /\ Len(SeedSuccessors) > max_pages - 1
    /\ Len(documents) = max_pages

\* scheme and host of a URL: everything before the first "/" of the path
RECURSIVE UpToSlash(_)
UpToSlash(s) ==
    IF s = <<>> \/ Head(s) = "/" THEN <<>> ELSE <<Head(s)>> \o UpToSlash(Tail(s))

Origin(u) ==
    IF StartsWith(u, HTTPS) THEN HTTPS \o UpToSlash(SubSeq(u, Len(HTTPS) + 1, Len(u)))
    ELSE IF StartsWith(u, HTTP) THEN HTTP \o UpToSlash(SubSeq(u, Len(HTTP) + 1, Len(u)))
    ELSE <<>>

NoDuplicates(seq) == \A i, j \in 1..Len(seq) : i # j => seq[i] # seq[j]

\* C9 (as amended): the frontier never holds a duplicate or a visited URL,
\* only URLs that start with base_url are ever appended, none of them twice
\* and never the seed, and the dequeue-time 'already visited' branch is
\* never taken.
FrontierDedupAndPrefixScope ==
    /\ NoDuplicates(urls_to_process)
    /\ Range(urls_to_process) \cap processed_urls = {}
    /\ \A u \in Range(enqueued) : StartsWith(u, BaseUrl(url))
    /\ NoDuplicates(enqueued)
    /\ url \notin Range(enqueued)
    /\ skipped = 0

\* C9 (as stated): the same, and no link to an external domain is ever
\* enqueued.
FrontierDedupAndNoExternalDomain ==
    /\ FrontierDedupAndPrefixScope
    /\ \A u \in Range(enqueued) : Origin(u) = Origin(url)

\* a followed page links to itself and to another host; other links of it
\* were enqueued
SelfAndExternalLinkWitness ==
    /\ pc = "exit"
    /\ enqueued # <<>>
    /\ \E u \in Range(DocUrls) :
          /\ u \in LinksOf(u)
          /\ \E i \in 1..Len(site[u].hrefs) :
                LET full_url == ResolveHref(BaseUrl(url), site[u].hrefs[i])
                IN  Origin(full_url) # Origin(url) /\ full_url \notin Range(enqueued)
          /\ \E v \in LinksOf(u) : v \in Range(enqueued)

\* C10: every emitted document has source "web" and non-empty text, and a
\* fetched page gives exactly one document, under its own URL, when its
\* normalized text is non-empty, and none when it is empty or has no body.
EmittedDocumentsHaveText ==
    /\ \A i \in 1..Len(documents) :
          /\ documents[i].source = "web"
          /\ \E k \in 1..Len(documents[i].text) : ~IsSpace(documents[i].text[k])
          /\ documents[i].url \in Range(fetched)
    /\ \A u \in Range(fetched) :
          /\ Cardinality({i \in 1..Len(documents) : documents[i].url = u})
                = IF GaveText(u) THEN 1 ELSE 0
          /\ (site[u].ok /\ ~MainContent(site[u]).present /\ ~site[u].body.present)
                => u \notin Range(DocUrls)

\* a crawl that met a page without body and a page of whitespace only
EmptyPagesDroppedWitness ==
    /\ pc = "exit"
    /\ documents # <<>>
    /\ \E u, v \in Range(fetched) :
          /\ site[u].ok /\ ~MainContent(site[u]).present /\ ~site[u].body.present
          /\ site[v].ok /\ site[v].body.present /\ ExtractText(site[v]) = <<>>
          /\ u \notin Range(DocUrls) /\ v \notin Range(DocUrls)

\* C11: every emitted document has a title that is the text of the page's
\* title element or, when the page gives no title text, the page's URL; it
\* is never null.
TitleIsTextOrUrl ==
    \A i \in 1..Len(documents) :
        LET page == site[documents[i].url]
        IN  /\ documents[i].title # PyNone
            /\ documents[i].title =
                  IF page.title.present /\ page.title.string # PyNone
                  THEN page.title.string
                  ELSE documents[i].url

\* the path of a URL: everything after scheme and host
PathOf(u) == SubSeq(u, Len(Origin(u)) + 1, Len(u))

\* every URL the crawl enqueued or fetched, other than the seed
ScopedUrls == (Range(enqueued) \cup Range(fetched)) \ {url}

\* the URL is base_url itself or continues it with "/"
ContinuesWithSlash(u, base_url) ==
    /\ StartsWith(u, base_url)
    /\ Len(u) = Len(base_url) \/ u[Len(base_url) + 1] = "/"

\* C12 (as amended): every URL enqueued or fetched, other than the seed,
\* starts with base_url; when it is base_url or continues it with "/", it
\* has the seed's scheme and host and a path equal to or below the seed's.
ScopeIsStringPrefix ==
    \A u \in ScopedUrls :
        /\ StartsWith(u, BaseUrl(url))
        /\ ContinuesWithSlash(u, BaseUrl(url)) =>
              /\ Origin(u) = Origin(url)
              /\ StartsWith(PathOf(u), PathOf(BaseUrl(url)))

\* C12 (as stated): every such URL starts with base_url and has the seed's
\* scheme and host and a path equal to or below the seed's; no URL of
\* another host is fetched.
ScopeIsSameOrigin ==
    /\ \A u \in ScopedUrls :
          /\ StartsWith(u, BaseUrl(url))
          /\ Origin(u) = Origin(url)
          /\ StartsWith(PathOf(u), PathOf(BaseUrl(url)))
    /\ \A u \in Range(fetched) : Origin(u) = Origin(url)

\* a link to another host was dropped, a URL of yet another host, whose
\* string starts with base_url, was fetched
ScopedCrawlWitness ==
    /\ pc = "exit"
    /\ \E u \in Range(fetched) : Origin(u) # Origin(url)
    /\ \E u \in Range(DocUrls) : \E i \in 1..Len(site[u].hrefs) :
          LET full_url == ResolveHref(BaseUrl(url), site[u].hrefs[i])
          IN  /\ ~StartsWith(full_url, BaseUrl(url))
              /\ full_url \notin ScopedUrls
              /\ \E v \in LinksOf(u) : v \in Range(fetched) \ {url}

\* the in-scope URLs a list of hrefs resolves to that are not known yet,
\* in the order of their first occurrence
RECURSIVE NewLinks(_, _, _)
NewLinks(hrefs, known, acc) ==
    IF hrefs = <<>> THEN acc
    ELSE LET full_url == ResolveHref(BaseUrl(url), Head(hrefs))
         IN  NewLinks(Tail(hrefs), known,
                 IF StartsWith(full_url, BaseUrl(url)) /\ full_url \notin known
                    /\ ~InSeq(full_url, acc)
                 THEN Append(acc, full_url) ELSE acc)

\* a step of the loop whose fetch succeeds
PageFetched ==
    /\ pc = "loop"
    /\ Len(fetched') = Len(fetched) + 1
    /\ site'[fetched'[Len(fetched')]].ok

\* C13: after any page is fetched successfully while pages_processed <
\* max_pages, its new in-scope links are appended to the back of the
\* frontier in discovery order, whether or not the page gave a document.
LinksFollowedFromEveryPage ==
    [][(PageFetched /\ processed_count' < max_pages) =>
        urls_to_process' =
            Tail(urls_to_process)
            \o NewLinks(site'[Head(urls_to_process)].hrefs,
                        processed_urls' \cup Range(Tail(urls_to_process)), <<>>)]_vars

\* the text of a region as a document carries it
RegionText(elem) == NormalizeWhitespace(GetText(elem))

\* every fetched page has a document with the given text, or none when the
\* text is empty
TextComesFrom(Region(_)) ==
    \A u \in Range(fetched) :
        site[u].ok =>
            LET text == RegionText(Region(site[u]))
            IN  IF text = <<>>
                THEN u \notin Range(DocUrls)
                ELSE \E i \in 1..Len(documents) :
                        documents[i].url = u /\ documents[i].text = text

DivRegion(page) ==
    IF page.article.present THEN page.article
    ELSE IF page.main.present THEN page.main
    ELSE IF page.content.present THEN page.content
    ELSE page.body

AnyElementRegion(page) ==
    IF page.article.present THEN page.article
    ELSE IF page.main.present THEN page.main
    ELSE IF page.content.present THEN page.content
    ELSE IF page.other_content.present THEN page.other_content
    ELSE page.body

RuleResolve(base_url, href) ==
    IF href # <<>> /\ href[1] = "/" THEN base_url \o href
    ELSE IF Len(href) >= 2 /\ href[1] = "." /\ href[2] = "/"
         THEN base_url \o SubSeq(href, 2, Len(href))
    ELSE IF StartsWith(href, HTTP) \/ StartsWith(href, HTTPS) THEN href
    ELSE base_url \o <<"/">> \o href

\* the pages whose links the crawl went through
Followed == {fetched[i] : i \in {k \in 1..Len(fetched) : k < max_pages /\ GaveText(fetched[k])}}

\* C15: every href of every followed page is resolved by the rules, in
\* order, against base_url: what is enqueued is what the rules give.
LinksResolvedAgainstBase ==
    LET base_url == BaseUrl(url)
        resolved == UNION {{RuleResolve(base_url, site[u].hrefs[k]) :
                               k \in 1..Len(site[u].hrefs)} : u \in Followed}
    IN  /\ \A full_url \in resolved :
              StartsWith(full_url, base_url) => full_url \in Range(enqueued) \cup {url}
        /\ Range(enqueued) \subseteq resolved

\* under a seed with a path, links of all four kinds were enqueued below
\* base_url
FourKindsResolvedWitness ==
    /\ pc = "exit"
    /\ url = SeedDeep
    /\ \E u, v \in Followed :
          /\ hDeepAbs \in Range(site[u].hrefs)
          /\ {hRootP, hDotQ, hRelR} \subseteq Range(site[v].hrefs)
    /\ {hDeepAbs, SeedDeep \o <<"/", "q">>, SeedDeep \o <<"/", "r">>}
          \subseteq Range(enqueued)

\* C16: every URL is fetched at most once: it is marked visited and
\* counted when it is fetched, whether the fetch fails or not, stays
\* visited, and is never enqueued again.
FetchedAtMostOnce ==
    /\ NoDuplicates(fetched)
    /\ processed_count = Len(fetched)
    /\ processed_urls = Range(fetched)
    /\ Range(urls_to_process) \cap Range(fetched) = {}
    /\ NoDuplicates(enqueued)
    /\ url \notin Range(enqueued)
    /\ \A i \in 1..Len(fetched) :
          ~site[fetched[i]].ok =>
              Cardinality({k \in 1..Len(enqueued) : enqueued[k] = fetched[i]})
                  = IF fetched[i] = url THEN 0 ELSE 1

\* a page failed, a page followed later links to it, and the budget that
\* the failed page took part of is used up
FailedPageLinkedAgainWitness ==
    /\ pc = "exit"
    /\ processed_count = max_pages
    /\ \E i, j \in 1..Len(fetched) :
          /\ i < j
          /\ ~site[fetched[i]].ok
          /\ fetched[j] \in Followed
          /\ fetched[i] \in LinksOf(fetched[j])

\* the URLs reachable from the seed through in-scope links
RECURSIVE ReachableFrom(_)
ReachableFrom(set) ==
    LET next == set \cup UNION {KnownLinks(u) : u \in set}
    IN  IF next = set THEN set ELSE ReachableFrom(next)

Reachable == ReachableFrom({url})

\* C17: when every page reachable from the seed gives text and max_pages is
\* at least their number, the crawl ends with an empty frontier and exactly
\* one document for each reachable page, the seed's first.
CompleteWithinBudget ==
    (pc # "loop" /\ AllFetchedGaveText) =>
        LET reachable == Reachable
        IN  max_pages >= Cardinality(reachable) =>
                /\ urls_to_process = <<>>
                /\ Range(DocUrls) = reachable
                /\ Len(documents) = Cardinality(reachable)
                /\ documents[1].url = url

\* a site of at least three pages with a link back to the seed, crawled
\* with a budget of exactly its size
WholeSiteWitness ==
    /\ pc = "exit"
    /\ AllFetchedGaveText
    /\ Cardinality(Reachable) >= 3
    /\ max_pages = Cardinality(Reachable)
    /\ \E u \in Reachable \ {url} : url \in KnownLinks(u)
    /\ Len(documents) = max_pages

IsPrefix(a, b) == Len(a) <= Len(b) /\ SubSeq(b, 1, Len(a)) = a

\* C18: the monolithic collect_web of app.py and the refactored handler
\* fetch the same URLs in the same order, have equal frontier, visited set,
\* counter and documents after equally many iterations, and give the same
\* documents and the same status.
CrawlsEquivalent ==
    /\ IsPrefix(fetched, mono.fetched) \/ IsPrefix(mono.fetched, fetched)
    /\ Len(dequeued) = Len(mono.dequeued) =>
          /\ urls_to_process = mono.urls_to_process
          /\ processed_urls = mono.processed_urls
          /\ processed_count = mono.processed_count
          /\ documents = mono.documents
          /\ fetched = mono.fetched
    /\ (pc = "responded" /\ mono.pc = "responded") =>
          /\ documents = mono.documents
          /\ fetched = mono.fetched
          /\ faulted = mono.faulted => response = mono.response

\* both handlers answered a crawl of several pages, one of them failed,
\* with the file
BothAnsweredWitness ==
    /\ pc = "responded" /\ mono.pc = "responded"
    /\ Len(mono.documents) >= 2
    /\ \E u \in Range(mono.fetched) : ~site[u].ok
    /\ response = "file200" /\ mono.response = "file200"

====
